---------------------------- MODULE Spec2Model ----------------------------
(***************************************************************************)
(* Model of the liquidity_acceleration_token program (src/.../lib.rs):     *)
(* the global ProgramState, one TraderStats and one Stake record per       *)
(* trader, the LAT token balances the handlers move, and the cluster       *)
(* clock the handlers read.                                                *)
(*                                                                         *)
(* Every instruction is one action: the transaction Tx...(w, ...) applied  *)
(* to the current accounts w.  A handler that returns Err, or whose token  *)
(* CPI fails, aborts the transaction: no account change persists.          *)
(* The accounts bound to an instruction are the ones its seeds name for    *)
(* the signing trader (stats, stake), the trader's own token account and   *)
(* the program's staking vault.                                            *)
(*                                                                         *)
(* u64 / i64 are modelled with Width bits instead of 64, so that overflow  *)
(* is reachable; all checked_* operators test the range before computing.  *)
(***************************************************************************)
EXTENDS Integers, FiniteSets, Sequences, TLC

VARIABLES
    state,          \* ProgramState (lib.rs 244-258)
    trader_stats,   \* trader -> TraderStats (lib.rs 293-298)
    stake,          \* trader -> Stake (lib.rs 334-338)
    initialized,    \* the PDA accounts that exist: <<"stats", t>>, <<"stake", t>>
    token,          \* LAT balances: wallet[t] and the staking vault
    clock,          \* Clock::get()?.unix_timestamp of the current slot
    history         \* per trader: times of the first trade, of the trade
                    \* claims paid and of the first stake; the trade rewards
                    \* accrued by record_trade and minted by claim_trade_rewards;
                    \* the tokens the trader's instructions moved into the
                    \* vault less those they moved out

vars == <<state, trader_stats, stake, initialized, token, clock, history>>

----------------------------------------------------------------------------
(* Bounds of the model *)

Width == 24             \* bits of the modelled u64 / i64
MaxTrades == 3          \* successful record_trade calls per run
MaxStake == 2           \* cap on Stake.amount reached by stake_lat
StartTime == 10         \* unix_timestamp of the first slot of the run

Traders == {"t1", "t2"}

U64_MAX == 2^Width - 1
I64_MAX == 2^(Width - 1) - 1
I64_MIN == -(2^(Width - 1))

(* Program constants *)
HIGH_REWARD_MULTIPLIER == 150
BASE_MULTIPLIER == 100
VESTING_SECONDS == 604800

(* Inputs *)
TradeVolumes == {400, U64_MAX}
StakeAmounts == 0 .. MaxStake
WithdrawAmounts == 0 .. MaxStake + 1
InitialBalance == MaxStake      \* LAT in each trader's token account at the start

(* The instants of the run at which instructions execute, as offsets from  *)
(* StartTime: around the trade epoch and around the end of the vesting     *)
TradeTimes == {StartTime, StartTime + 2, StartTime + 4}
StakeTimes == {StartTime, StartTime + VESTING_SECONDS,
               StartTime + VESTING_SECONDS + 2}
Times == TradeTimes \cup StakeTimes

(* Arguments of initialize *)
TradeRewardRates == {2}
StakeRewardRates == {3}
TradeEpochDurations == {0, 2}
PoolVolumeThresholds == {800, 1000}
PoolBoostMultipliers == {150}

----------------------------------------------------------------------------
(* Checked arithmetic of Rust's u64 and i64.  None is the Option::None of  *)
(* a checked operation; it lies outside both ranges.                       *)

None == -(2^(Width + 1))

checked_add(a, b) == IF a > U64_MAX - b THEN None ELSE a + b

checked_sub(a, b) == IF b > a THEN None ELSE a - b

checked_mul(a, b) ==
    IF a = 0 \/ b = 0 THEN 0
    ELSE IF a > U64_MAX \div b THEN None ELSE a * b

checked_div(a, b) == IF b = 0 THEN None ELSE a \div b

and_then_mul(r, b) == IF r = None THEN None ELSE checked_mul(r, b)

and_then_div(r, b) == IF r = None THEN None ELSE checked_div(r, b)

i64_checked_add(a, b) ==
    IF a + b > I64_MAX \/ a + b < I64_MIN THEN None ELSE a + b

i64_checked_sub(a, b) ==
    IF a - b > I64_MAX \/ a - b < I64_MIN THEN None ELSE a - b

(* `x as u64` for an i64 x: two's complement reinterpretation *)
as_u64(x) == IF x < 0 THEN x + 2^Width ELSE x


----------------------------------------------------------------------------
(* Outcome of a handler: err = "Ok" or the ErrorCode it returned *)

Fail(code) == [err |-> code]

(* Mutant: the reward is not scaled by the epoch volume *)
MultiplierFlat(epoch_trade_volume, pool_volume_threshold) == BASE_MULTIPLIER

(* Mutant: the threshold itself still earns the high multiplier *)
MultiplierAtOrBelow(epoch_trade_volume, pool_volume_threshold) ==
    IF epoch_trade_volume <= pool_volume_threshold
    THEN HIGH_REWARD_MULTIPLIER
    ELSE BASE_MULTIPLIER

(* record_trade: the dynamic multiplier, read from the state whose         *)
(* epoch_trade_volume already includes this trade                          *)
Multiplier(epoch_trade_volume, pool_volume_threshold) ==
    IF epoch_trade_volume < pool_volume_threshold
    THEN HIGH_REWARD_MULTIPLIER
    ELSE BASE_MULTIPLIER

TradeReward(trade_volume, trade_reward_rate, multiplier) ==
    and_then_div(and_then_mul(checked_mul(trade_volume, trade_reward_rate),
                              multiplier),
                 100)

(* Mutants: every trade restarts the epoch clock; no trade starts it *)
FirstTradeLastClaimAlways(old, now) == now

FirstTradeLastClaimNever(old, now) == old

(* last_claim after a trade that found last_claim = old *)
FirstTradeLastClaim(old, now) == IF old = 0 THEN now ELSE old

(* Mutant: the epoch volume starts again from 0 once it has reached the    *)
(* threshold                                                               *)
record_trade_resets_epoch(st, stats, trade_volume, now) ==
    LET total_trades == checked_add(st.total_trades, 1)
        epoch_trade_volume == checked_add(st.epoch_trade_volume, trade_volume)
        pool_trading_volume == checked_add(st.pool_trading_volume, trade_volume)
        trade_count == checked_add(stats.trade_count, 1)
        total_volume == checked_add(stats.total_volume, trade_volume)
        multiplier == Multiplier(epoch_trade_volume, st.pool_volume_threshold)
        reward == TradeReward(trade_volume, st.trade_reward_rate, multiplier)
        pending == checked_add(stats.pending_trade_rewards, reward)
    IN  IF total_trades = None \/ epoch_trade_volume = None
           \/ pool_trading_volume = None \/ trade_count = None
           \/ total_volume = None \/ reward = None
        THEN Fail("CalculationError")
        ELSE IF pending = None
        THEN Fail("CalculationError")
        ELSE [err |-> "Ok",
              reward |-> reward,
              state |-> [st EXCEPT !.total_trades = total_trades,
                                   !.epoch_trade_volume =
                                        IF epoch_trade_volume
                                              >= st.pool_volume_threshold
                                        THEN 0 ELSE epoch_trade_volume,
                                   !.pool_trading_volume = pool_trading_volume],
              stats |-> [trade_count |-> trade_count,
                         total_volume |-> total_volume,
                         pending_trade_rewards |-> pending,
                         last_claim |-> FirstTradeLastClaim(stats.last_claim, now)]]

(* Mutant: the reward replaces the pending rewards instead of adding to    *)
(* them                                                                    *)
record_trade_overwrites_pending(st, stats, trade_volume, now) ==
    LET total_trades == checked_add(st.total_trades, 1)
        epoch_trade_volume == checked_add(st.epoch_trade_volume, trade_volume)
        pool_trading_volume == checked_add(st.pool_trading_volume, trade_volume)
        trade_count == checked_add(stats.trade_count, 1)
        total_volume == checked_add(stats.total_volume, trade_volume)
        multiplier == Multiplier(epoch_trade_volume, st.pool_volume_threshold)
        reward == TradeReward(trade_volume, st.trade_reward_rate, multiplier)
    IN  IF total_trades = None \/ epoch_trade_volume = None
           \/ pool_trading_volume = None \/ trade_count = None
           \/ total_volume = None \/ reward = None
        THEN Fail("CalculationError")
        ELSE [err |-> "Ok",
              reward |-> reward,
              state |-> [st EXCEPT !.total_trades = total_trades,
                                   !.epoch_trade_volume = epoch_trade_volume,
                                   !.pool_trading_volume = pool_trading_volume],
              stats |-> [trade_count |-> trade_count,
                         total_volume |-> total_volume,
                         pending_trade_rewards |-> reward,
                         last_claim |-> FirstTradeLastClaim(stats.last_claim, now)]]

record_trade(st, stats, trade_volume, now) ==
    LET total_trades == checked_add(st.total_trades, 1)
        epoch_trade_volume == checked_add(st.epoch_trade_volume, trade_volume)
        pool_trading_volume == checked_add(st.pool_trading_volume, trade_volume)
        trade_count == checked_add(stats.trade_count, 1)
        total_volume == checked_add(stats.total_volume, trade_volume)
        multiplier == Multiplier(epoch_trade_volume, st.pool_volume_threshold)
        reward == TradeReward(trade_volume, st.trade_reward_rate, multiplier)
        pending == checked_add(stats.pending_trade_rewards, reward)
    IN  IF total_trades = None \/ epoch_trade_volume = None
           \/ pool_trading_volume = None \/ trade_count = None
           \/ total_volume = None \/ reward = None
        THEN Fail("CalculationError")
        ELSE IF pending = None
        THEN Fail("CalculationError")
        ELSE [err |-> "Ok",
              reward |-> reward,
              state |-> [st EXCEPT !.total_trades = total_trades,
                                   !.epoch_trade_volume = epoch_trade_volume,
                                   !.pool_trading_volume = pool_trading_volume],
              stats |-> [trade_count |-> trade_count,
                         total_volume |-> total_volume,
                         pending_trade_rewards |-> pending,
                         last_claim |-> FirstTradeLastClaim(stats.last_claim, now)]]

(* Mutant: the operands of the comparison swapped *)
EpochNotEndedSwapped(elapsed, trade_epoch_duration) ==
    trade_epoch_duration < elapsed

(* claim_trade_rewards: the epoch gate *)
EpochNotEnded(elapsed, trade_epoch_duration) == elapsed < trade_epoch_duration

(* Mutants: the pending rewards are paid but not reset; a claim of nothing *)
(* is paid                                                                 *)
claim_trade_rewards_keeps_pending(st, stats, now) ==
    LET elapsed == i64_checked_sub(now, stats.last_claim)
        reward == stats.pending_trade_rewards
    IN  IF elapsed = None THEN Fail("Panic")
        ELSE IF EpochNotEnded(elapsed, st.trade_epoch_duration)
        THEN Fail("EpochNotEnded")
        ELSE IF reward = 0 THEN Fail("NoPendingRewards")
        ELSE [err |-> "Ok",
              reward |-> reward,
              stats |-> [stats EXCEPT !.last_claim = now]]

claim_trade_rewards_pays_nothing(st, stats, now) ==
    LET elapsed == i64_checked_sub(now, stats.last_claim)
        reward == stats.pending_trade_rewards
    IN  IF elapsed = None THEN Fail("Panic")
        ELSE IF EpochNotEnded(elapsed, st.trade_epoch_duration)
        THEN Fail("EpochNotEnded")
        ELSE [err |-> "Ok",
              reward |-> reward,
              stats |-> [stats EXCEPT !.pending_trade_rewards = 0,
                                      !.last_claim = now]]

claim_trade_rewards(st, stats, now) ==
    LET elapsed == i64_checked_sub(now, stats.last_claim)
        reward == stats.pending_trade_rewards
    IN  IF elapsed = None THEN Fail("Panic")
        ELSE IF EpochNotEnded(elapsed, st.trade_epoch_duration)
        THEN Fail("EpochNotEnded")
        ELSE IF reward = 0 THEN Fail("NoPendingRewards")
        ELSE [err |-> "Ok",
              reward |-> reward,
              stats |-> [stats EXCEPT !.pending_trade_rewards = 0,
                                      !.last_claim = now]]

(* Mutant: every stake restarts the vesting *)
StakeStartEveryStake(old, now) == now

(* stake_lat, after the transfer into the vault has succeeded *)
StakeStart(old, now) == IF old = 0 THEN now ELSE old

(* Mutant: the staked amount is set to the amount of this stake *)
stake_lat_sets_amount(stk, amount, now) ==
    [err |-> "Ok",
     stake |-> [amount |-> amount,
                last_updated |-> now,
                stake_start |-> StakeStart(stk.stake_start, now)]]

stake_lat(stk, amount, now) ==
    LET new_amount == checked_add(stk.amount, amount)
    IN  IF new_amount = None THEN Fail("CalculationError")
        ELSE [err |-> "Ok",
              stake |-> [amount |-> new_amount,
                         last_updated |-> now,
                         stake_start |-> StakeStart(stk.stake_start, now)]]

(* Mutants: the vesting period is not added to stake_start; the threshold  *)
(* itself already boosts                                                   *)
VestingNotCompletedFromStart(now, vesting_end) ==
    now < vesting_end - VESTING_SECONDS

PoolBoostedAtThreshold(pool_trading_volume, pool_volume_threshold) ==
    pool_trading_volume >= pool_volume_threshold

(* claim_stake_rewards *)
VestingNotCompleted(now, vesting_end) == now < vesting_end

PoolBoosted(pool_trading_volume, pool_volume_threshold) ==
    pool_trading_volume > pool_volume_threshold

EffectiveStakeRewardRate(st) ==
    IF PoolBoosted(st.pool_trading_volume, st.pool_volume_threshold)
    THEN and_then_div(checked_mul(st.stake_reward_rate,
                                  st.pool_boost_multiplier),
                      100)
    ELSE st.stake_reward_rate

StakeReward(amount, rate, duration) ==
    and_then_mul(checked_mul(amount, rate), duration)

(* Mutant: a claim does not advance last_updated *)
claim_stake_rewards_keeps_last_updated(st, stk, now) ==
    LET vesting_end == i64_checked_add(stk.stake_start, VESTING_SECONDS)
        elapsed == i64_checked_sub(now, stk.last_updated)
        duration == as_u64(elapsed)
        rate == EffectiveStakeRewardRate(st)
        reward == StakeReward(stk.amount, rate, duration)
    IN  IF vesting_end = None THEN Fail("CalculationError")
        ELSE IF VestingNotCompleted(now, vesting_end)
        THEN Fail("VestingPeriodNotCompleted")
        ELSE IF elapsed = None \/ rate = None THEN Fail("CalculationError")
        ELSE IF reward = None THEN Fail("CalculationError")
        ELSE [err |-> "Ok",
              reward |-> reward,
              stake |-> stk]

claim_stake_rewards(st, stk, now) ==
    LET vesting_end == i64_checked_add(stk.stake_start, VESTING_SECONDS)
        elapsed == i64_checked_sub(now, stk.last_updated)
        duration == as_u64(elapsed)
        rate == EffectiveStakeRewardRate(st)
        reward == StakeReward(stk.amount, rate, duration)
    IN  IF vesting_end = None THEN Fail("CalculationError")
        ELSE IF VestingNotCompleted(now, vesting_end)
        THEN Fail("VestingPeriodNotCompleted")
        ELSE IF elapsed = None \/ rate = None THEN Fail("CalculationError")
        ELSE IF reward = None THEN Fail("CalculationError")
        ELSE [err |-> "Ok",
              reward |-> reward,
              stake |-> [stk EXCEPT !.last_updated = now]]

(* Mutant: the whole stake cannot be withdrawn *)
InsufficientStakeStrict(amount, staked) == ~(amount < staked)

(* withdraw_stake, before the transfer out of the vault *)
InsufficientStake(amount, staked) == ~(amount <= staked)

(* Mutant: the staked amount is not required to cover the withdrawal *)
withdraw_stake_unchecked(stk, amount) ==
    [err |-> "Ok",
     stake |-> [stk EXCEPT !.amount = IF amount > @ THEN 0 ELSE @ - amount]]

(* Mutant: a withdrawal of the whole balance returns the record to its    *)
(* initial value                                                           *)
withdraw_stake_clears_emptied(stk, amount) ==
    IF InsufficientStake(amount, stk.amount) THEN Fail("InsufficientStake")
    ELSE LET new_amount == checked_sub(stk.amount, amount)
         IN  IF new_amount = None THEN Fail("CalculationError")
             ELSE [err |-> "Ok",
                   stake |-> IF new_amount = 0
                             THEN [amount |-> 0, last_updated |-> 0,
                                   stake_start |-> 0]
                             ELSE [stk EXCEPT !.amount = new_amount]]

(* Mutant: a withdrawal restarts the accrual of the remaining balance *)
withdraw_stake_restarts_accrual(stk, amount) ==
    IF InsufficientStake(amount, stk.amount) THEN Fail("InsufficientStake")
    ELSE LET new_amount == checked_sub(stk.amount, amount)
         IN  IF new_amount = None THEN Fail("CalculationError")
             ELSE [err |-> "Ok",
                   stake |-> [stk EXCEPT !.amount = new_amount,
                                         !.last_updated = stk.stake_start]]

withdraw_stake(stk, amount) ==
    IF InsufficientStake(amount, stk.amount) THEN Fail("InsufficientStake")
    ELSE LET new_amount == checked_sub(stk.amount, amount)
         IN  IF new_amount = None THEN Fail("CalculationError")
             ELSE [err |-> "Ok",
                   stake |-> [stk EXCEPT !.amount = new_amount]]

----------------------------------------------------------------------------
(* The SPL token instructions the handlers invoke.  Each returns the new   *)
(* balances, or None when the token program rejects the instruction.       *)

RECURSIVE SumOver(_, _)
SumOver(f, S) ==
    IF S = {} THEN 0
    ELSE LET x == CHOOSE y \in S : TRUE IN f[x] + SumOver(f, S \ {x})

Supply(tok) == SumOver(tok.wallet, Traders) + tok.vault

Rejected == [ok |-> FALSE]

Done(tok) == [ok |-> TRUE, token |-> tok]

(* token::mint_to(lat_mint -> trader_token_account, amount) *)
mint_to(tok, t, amount) ==
    IF checked_add(Supply(tok), amount) = None THEN Rejected
    ELSE Done([tok EXCEPT !.wallet[t] = @ + amount])

(* token::transfer(trader_token_account -> staking_vault, amount) *)
transfer_to_vault(tok, t, amount) ==
    IF tok.wallet[t] < amount THEN Rejected
    ELSE Done([tok EXCEPT !.wallet[t] = @ - amount, !.vault = @ + amount])

(* token::transfer(staking_vault -> trader_token_account, amount) *)
transfer_from_vault(tok, t, amount) ==
    IF tok.vault < amount THEN Rejected
    ELSE Done([tok EXCEPT !.vault = @ - amount, !.wallet[t] = @ + amount])

----------------------------------------------------------------------------
(* Accounts *)

ZeroStats == [trade_count |-> 0, total_volume |-> 0,
              pending_trade_rewards |-> 0, last_claim |-> 0]

ZeroStake == [amount |-> 0, last_updated |-> 0, stake_start |-> 0]

(* The accounts an instruction reads and writes, and the clock sysvar *)
World ==
    [state |-> state, trader_stats |-> trader_stats, stake |-> stake,
     initialized |-> initialized, token |-> token, clock |-> clock]

(* A transaction's outcome: the handler's result, the LAT it minted and    *)
(* the accounts it leaves                                                  *)
Committed(w, minted) == [result |-> "Ok", minted |-> minted, world |-> w]

Aborted(w, code) == [result |-> code, minted |-> 0, world |-> w]

(* Mutant: a failed record_trade keeps the increment of total_trades it    *)
(* made before the failing operation                                       *)
TxRecordTradeNoRollback(w, t, trade_volume) ==
    LET r == record_trade(w.state, w.trader_stats[t], trade_volume, w.clock)
        total_trades == checked_add(w.state.total_trades, 1)
    IN  IF r.err # "Ok"
        THEN Aborted(IF total_trades = None THEN w
                     ELSE [w EXCEPT !.state.total_trades = total_trades],
                     r.err)
        ELSE Committed([w EXCEPT !.state = r.state,
                                 !.trader_stats[t] = r.stats,
                                 !.initialized = @ \cup {<<"stats", t>>}], 0)

(* record_trade by trader t; trader_stats is init_if_needed *)
TxRecordTrade(w, t, trade_volume) ==
    LET r == record_trade(w.state, w.trader_stats[t], trade_volume, w.clock)
    IN  IF r.err # "Ok" THEN Aborted(w, r.err)
        ELSE Committed([w EXCEPT !.state = r.state,
                                 !.trader_stats[t] = r.stats,
                                 !.initialized = @ \cup {<<"stats", t>>}], 0)

(* claim_trade_rewards by trader t *)
TxClaimTradeRewards(w, t) ==
    IF <<"stats", t>> \notin w.initialized
    THEN Aborted(w, "AccountNotInitialized")
    ELSE LET r == claim_trade_rewards(w.state, w.trader_stats[t], w.clock)
         IN  IF r.err # "Ok" THEN Aborted(w, r.err)
             ELSE LET m == mint_to(w.token, t, r.reward)
                  IN  IF ~m.ok THEN Aborted(w, "TokenError")
                      ELSE Committed([w EXCEPT !.trader_stats[t] = r.stats,
                                               !.token = m.token], r.reward)

(* stake_lat by trader t; stake is init_if_needed *)
TxStakeLat(w, t, amount) ==
    LET m == transfer_to_vault(w.token, t, amount)
    IN  IF ~m.ok THEN Aborted(w, "TokenError")
        ELSE LET r == stake_lat(w.stake[t], amount, w.clock)
             IN  IF r.err # "Ok" THEN Aborted(w, r.err)
                 ELSE Committed([w EXCEPT !.stake[t] = r.stake,
                                          !.token = m.token,
                                          !.initialized = @ \cup {<<"stake", t>>}], 0)

(* claim_stake_rewards by trader t *)
TxClaimStakeRewards(w, t) ==
    IF <<"stake", t>> \notin w.initialized
    THEN Aborted(w, "AccountNotInitialized")
    ELSE LET r == claim_stake_rewards(w.state, w.stake[t], w.clock)
         IN  IF r.err # "Ok" THEN Aborted(w, r.err)
             ELSE LET m == mint_to(w.token, t, r.reward)
                  IN  IF ~m.ok THEN Aborted(w, "TokenError")
                      ELSE Committed([w EXCEPT !.stake[t] = r.stake,
                                               !.token = m.token], r.reward)

(* withdraw_stake by trader t *)
TxWithdrawStake(w, t, amount) ==
    IF <<"stake", t>> \notin w.initialized
    THEN Aborted(w, "AccountNotInitialized")
    ELSE LET r == withdraw_stake(w.stake[t], amount)
         IN  IF r.err # "Ok" THEN Aborted(w, r.err)
             ELSE LET m == transfer_from_vault(w.token, t, amount)
                  IN  IF ~m.ok THEN Aborted(w, "TokenError")
                      ELSE Committed([w EXCEPT !.stake[t] = r.stake,
                                               !.token = m.token], 0)

----------------------------------------------------------------------------
(* The state machine *)

(* initialize(trade_reward_rate, stake_reward_rate, trade_epoch_duration,  *)
(* pool_volume_threshold, pool_boost_multiplier): the state after the one  *)
(* ProgramState has been created                                           *)
InitOf(Durations, Thresholds) ==
    /\ \E trr \in TradeRewardRates, srr \in StakeRewardRates,
          ted \in Durations, pvt \in Thresholds,
          pbm \in PoolBoostMultipliers :
            state = [trade_reward_rate |-> trr,
                     stake_reward_rate |-> srr,
                     total_trades |-> 0,
                     epoch_trade_volume |-> 0,
                     trade_epoch_duration |-> ted,
                     pool_trading_volume |-> 0,
                     pool_volume_threshold |-> pvt,
                     pool_boost_multiplier |-> pbm]
    /\ trader_stats = [t \in Traders |-> ZeroStats]
    /\ stake = [t \in Traders |-> ZeroStake]
    /\ initialized = {}
    /\ token = [wallet |-> [t \in Traders |-> InitialBalance], vault |-> 0]
    /\ clock = StartTime
    /\ history = [t \in Traders |-> [first_trade |-> <<>>, claims |-> <<>>,
                                    first_stake |-> <<>>,
                                    accrued |-> 0, claimed |-> 0,
                                    net_staked |-> 0]]

Init == InitOf(TradeEpochDurations, PoolVolumeThresholds)

(* The accounts after a transaction; the clock is not an account *)
Apply(w) ==
    /\ state' = w.state
    /\ trader_stats' = w.trader_stats
    /\ stake' = w.stake
    /\ initialized' = w.initialized
    /\ token' = w.token
    /\ UNCHANGED clock

(* The cluster clock advances between transactions *)
Tick(now) ==
    /\ now > clock
    /\ clock' = now
    /\ UNCHANGED <<state, trader_stats, stake, initialized, token, history>>

RecordTrade(t, trade_volume) ==
    /\ state.total_trades < MaxTrades
    /\ LET o == TxRecordTrade(World, t, trade_volume)
           r == record_trade(state, trader_stats[t], trade_volume, clock)
       IN  /\ Apply(o.world)
           /\ history' =
                 IF o.result # "Ok" THEN history
                 ELSE [history EXCEPT
                         ![t].first_trade = IF @ = <<>> THEN <<clock>> ELSE @,
                         ![t].accrued = @ + r.reward]

ClaimTradeRewards(t) ==
    LET o == TxClaimTradeRewards(World, t)
    IN  /\ Apply(o.world)
        /\ history' = IF o.result = "Ok"
                      THEN [history EXCEPT ![t].claims = Append(@, clock),
                                           ![t].claimed = @ + o.minted]
                      ELSE history

StakeLat(t, amount) ==
    /\ stake[t].amount + amount <= MaxStake
    /\ LET o == TxStakeLat(World, t, amount)
       IN  /\ Apply(o.world)
           /\ history' =
                 IF o.result # "Ok" THEN history
                 ELSE [history EXCEPT
                         ![t].first_stake = IF @ = <<>> THEN <<clock>> ELSE @,
                         ![t].net_staked = @ + o.world.token.vault - token.vault]

ClaimStakeRewards(t) ==
    /\ Apply(TxClaimStakeRewards(World, t).world)
    /\ UNCHANGED history

WithdrawStake(t, amount) ==
    LET o == TxWithdrawStake(World, t, amount)
    IN  /\ Apply(o.world)
        /\ history' = [history EXCEPT
                         ![t].net_staked = @ + o.world.token.vault - token.vault]

(* The instructions with their signers and arguments drawn from the given  *)
(* sets: TT trade with volumes VV, CT claim trade rewards, ST stake SA,    *)
(* claim stake rewards and withdraw WA, at the instants TI                 *)
NextOf(TT, VV, CT, ST, SA, WA, TI) ==
    \/ \E now \in TI : Tick(now)
    \/ \E t \in TT, v \in VV : RecordTrade(t, v)
    \/ \E t \in CT : ClaimTradeRewards(t)
    \/ \E t \in ST, a \in SA : StakeLat(t, a)
    \/ \E t \in ST : ClaimStakeRewards(t)
    \/ \E t \in ST, a \in WA : WithdrawStake(t, a)

Next ==
    NextOf(Traders, TradeVolumes, Traders, Traders, StakeAmounts,
           WithdrawAmounts, Times)

Spec == Init /\ [][Next]_vars

(* Spec with the staking inputs narrowed: both traders trade and claim,    *)
(* t2 stakes and withdraws everything at once, within the vesting period   *)
NextTrade ==
    NextOf(Traders, TradeVolumes, Traders, {"t2"}, {MaxStake}, {MaxStake},
           TradeTimes)

SpecTrade == Init /\ [][NextTrade]_vars

(* Spec with the trading inputs narrowed: t1 stakes, claims and withdraws  *)
(* any amount, t2 stakes and withdraws everything at once, only t1 trades, *)
(* 400 at a time, across the vesting period                                *)
InitStake == InitOf({2}, {800})

NextStake ==
    \/ \E now \in StakeTimes : Tick(now)
    \/ RecordTrade("t1", 400)
    \/ ClaimTradeRewards("t1")
    \/ \E a \in StakeAmounts : StakeLat("t1", a)
    \/ StakeLat("t2", MaxStake)
    \/ \E t \in Traders : ClaimStakeRewards(t)
    \/ \E a \in WithdrawAmounts : WithdrawStake("t1", a)
    \/ WithdrawStake("t2", MaxStake)

SpecStake == InitStake /\ [][NextStake]_vars

----------------------------------------------------------------------------
(* Properties.  A property of an instruction is stated of the transaction  *)
(* it would be in the current state, for every reachable state.            *)

(* Arguments the properties try beyond the ones the runs execute *)
ProbeVolumes == TradeVolumes \cup {0, 1}
ProbeRates == TradeRewardRates \cup {3}

HasStats(t) == <<"stats", t>> \in initialized

HasStake(t) == <<"stake", t>> \in initialized

Pending(w, t) == w.trader_stats[t].pending_trade_rewards

(* C1: a successful record_trade(t, v) adds 1 to total_trades and v to     *)
(* epoch_trade_volume and pool_trading_volume, leaves every other field of *)
(* ProgramState, every other trader's TraderStats, every Stake record and  *)
(* the token balances as they were, and changes last_claim of t only when  *)
(* it was 0.                                                               *)
C1_RecordTradeFrame ==
    \A t \in Traders, v \in ProbeVolumes :
        LET o == TxRecordTrade(World, t, v)
            w == o.world
        IN  o.result = "Ok" =>
              /\ w.state = [state EXCEPT !.total_trades = @ + 1,
                                         !.epoch_trade_volume = @ + v,
                                         !.pool_trading_volume = @ + v]
              /\ \A u \in Traders \ {t} : w.trader_stats[u] = trader_stats[u]
              /\ trader_stats[t].last_claim # 0 =>
                    w.trader_stats[t].last_claim = trader_stats[t].last_claim
              /\ w.stake = stake
              /\ w.token = token
              /\ w.clock = clock
              /\ w.initialized \subseteq initialized \cup {<<"stats", t>>}
              /\ o.minted = 0

(* Both traders have traded, the second trade came at a later instant than *)
(* the trader's first, and a Stake record holds tokens                     *)
C1_Witness ==
    /\ trader_stats["t1"].trade_count >= 2
    /\ trader_stats["t1"].last_claim # 0
    /\ trader_stats["t1"].last_claim < clock
    /\ trader_stats["t2"].trade_count >= 1
    /\ trader_stats["t2"].total_volume > 0
    /\ stake["t2"].amount > 0

(* C2: the reward a successful record_trade(t, v) adds to the pending      *)
(* rewards of t is v * rate * 150 / 100 when epoch_trade_volume + v is     *)
(* below pool_volume_threshold and v * rate otherwise (for every rate);    *)
(* with threshold 1000 and rate 2, three successive trades of 400 from an  *)
(* epoch volume of 0 accrue 1200, 1200 and 800.                            *)
ExpectedTradeReward(st, v) ==
    IF st.epoch_trade_volume + v < st.pool_volume_threshold
    THEN (v * st.trade_reward_rate * 150) \div 100
    ELSE v * st.trade_reward_rate

Accrued(w, t, v) == Pending(TxRecordTrade(w, t, v).world, t) - Pending(w, t)

C2_TradeReward ==
    /\ \A t \in Traders, v \in ProbeVolumes, rate \in ProbeRates :
          LET w == [World EXCEPT !.state.trade_reward_rate = rate]
          IN  TxRecordTrade(w, t, v).result = "Ok" =>
                 Accrued(w, t, v) = ExpectedTradeReward(w.state, v)
    /\ ( /\ state.pool_volume_threshold = 1000
         /\ state.trade_reward_rate = 2
         /\ state.epoch_trade_volume = 0 ) =>
          \A t1 \in Traders, t2 \in Traders, t3 \in Traders :
              LET o1 == TxRecordTrade(World, t1, 400)
                  o2 == TxRecordTrade(o1.world, t2, 400)
                  o3 == TxRecordTrade(o2.world, t3, 400)
              IN  /\ o1.result = "Ok" /\ o2.result = "Ok" /\ o3.result = "Ok"
                  /\ Accrued(World, t1, 400) = 1200
                  /\ Accrued(o1.world, t2, 400) = 1200
                  /\ Accrued(o2.world, t3, 400) = 800

(* The three trades of 400 have been executed, all by t1 *)
C2_Witness ==
    /\ state.pool_volume_threshold = 1000
    /\ state.trade_reward_rate = 2
    /\ state.total_trades = 3
    /\ state.epoch_trade_volume = 1200
    /\ trader_stats["t1"].trade_count = 3
    /\ trader_stats["t1"].pending_trade_rewards = 3200

(* C3, as claimed: a successful claim_trade_rewards zeroes the pending     *)
(* rewards, sets last_claim to the current time and mints the amount that  *)
(* was pending, and an immediate repeat fails with NoPendingRewards.       *)
ClaimPaysPending(t, o) ==
    /\ Pending(o.world, t) = 0
    /\ o.world.trader_stats[t].last_claim = clock
    /\ o.minted = Pending(World, t)
    /\ o.world.token.wallet[t] = token.wallet[t] + Pending(World, t)
    /\ Supply(o.world.token) = Supply(token) + Pending(World, t)

C3_Original ==
    \A t \in Traders :
        LET o == TxClaimTradeRewards(World, t)
        IN  o.result = "Ok" =>
              /\ ClaimPaysPending(t, o)
              /\ TxClaimTradeRewards(o.world, t).result = "NoPendingRewards"

(* C3, amended: ... and an immediate repeat fails, mints nothing and       *)
(* changes nothing: with EpochNotEnded when trade_epoch_duration > 0, with *)
(* NoPendingRewards otherwise.                                             *)
C3_ClaimThenRepeat ==
    \A t \in Traders :
        LET o == TxClaimTradeRewards(World, t)
            again == TxClaimTradeRewards(o.world, t)
        IN  o.result = "Ok" =>
              /\ ClaimPaysPending(t, o)
              /\ again.result = IF state.trade_epoch_duration > 0
                                THEN "EpochNotEnded"
                                ELSE "NoPendingRewards"
              /\ again.minted = 0
              /\ again.world = o.world

(* t1 has just been paid a claim, under a positive epoch duration *)
C3_Witness ==
    /\ state.trade_epoch_duration > 0
    /\ history["t1"].claims # <<>>
    /\ trader_stats["t1"].last_claim = clock
    /\ trader_stats["t1"].pending_trade_rewards = 0
    /\ token.wallet["t1"] > InitialBalance

(* C4, as claimed: claim_trade_rewards on a TraderStats whose pending      *)
(* rewards are 0 fails with NoPendingRewards, whatever last_claim and the  *)
(* current time are.                                                       *)
C4_Original ==
    \A t \in Traders :
        (HasStats(t) /\ Pending(World, t) = 0) =>
            TxClaimTradeRewards(World, t).result = "NoPendingRewards"

(* C4, amended: it fails and mints nothing: with NoPendingRewards when     *)
(* trade_epoch_duration has elapsed since last_claim, with EpochNotEnded   *)
(* when it has not.                                                        *)
C4_NoPendingRewards ==
    \A t \in Traders :
        (HasStats(t) /\ Pending(World, t) = 0) =>
            LET o == TxClaimTradeRewards(World, t)
            IN  /\ o.result =
                     IF clock - trader_stats[t].last_claim
                            < state.trade_epoch_duration
                     THEN "EpochNotEnded"
                     ELSE "NoPendingRewards"
                /\ o.minted = 0
                /\ o.world = World

(* A record with nothing pending whose epoch of 2 seconds has elapsed *)
C4_Witness ==
    /\ state.trade_epoch_duration = 2
    /\ HasStats("t1")
    /\ trader_stats["t1"].pending_trade_rewards = 0
    /\ clock - trader_stats["t1"].last_claim >= 2

(* C5: claim_trade_rewards while current_time - last_claim is below        *)
(* trade_epoch_duration fails with EpochNotEnded, mints nothing and leaves *)
(* every account, pending rewards and last_claim included, unchanged: now, *)
(* and at the last second of the epoch.                                    *)
EpochInstants(t) ==
    {clock} \cup {now \in {trader_stats[t].last_claim
                              + state.trade_epoch_duration - 1} : now > clock}

C5_EpochNotEnded ==
    \A t \in Traders :
        HasStats(t) =>
            \A now \in EpochInstants(t) :
                now - trader_stats[t].last_claim < state.trade_epoch_duration =>
                    LET w == [World EXCEPT !.clock = now]
                        o == TxClaimTradeRewards(w, t)
                    IN  /\ o.result = "EpochNotEnded"
                        /\ o.minted = 0
                        /\ o.world = w

(* Rewards are pending for t1 and the epoch has not ended *)
C5_Witness ==
    /\ HasStats("t1")
    /\ trader_stats["t1"].pending_trade_rewards > 0
    /\ clock - trader_stats["t1"].last_claim < state.trade_epoch_duration

(* C6: under the monotonic clock, the claims paid to a trader are at least *)
(* trade_epoch_duration seconds apart, and the first of them comes at      *)
(* least trade_epoch_duration seconds after the trader's first trade.      *)
C6_ClaimsAnEpochApart ==
    \A t \in Traders :
        LET claims == history[t].claims
        IN  /\ \A i \in 1 .. Len(claims) - 1 :
                  claims[i + 1] - claims[i] >= state.trade_epoch_duration
            /\ claims # <<>> =>
                  /\ history[t].first_trade # <<>>
                  /\ claims[1] - history[t].first_trade[1]
                        >= state.trade_epoch_duration

(* t1 has been paid two claims under an epoch of 2 seconds *)
C6_Witness ==
    /\ state.trade_epoch_duration = 2
    /\ Len(history["t1"].claims) >= 2

(* C7: a successful claim_stake_rewards mints amount * rate * (now -       *)
(* last_updated), where rate is stake_reward_rate * pool_boost_multiplier  *)
(* / 100 exactly when pool_trading_volume > pool_volume_threshold and      *)
(* stake_reward_rate otherwise, and sets last_updated to now; once the     *)
(* vesting is over, a claim on a zero amount or a zero duration succeeds,  *)
(* mints 0 and still sets last_updated.                                    *)
ExpectedStakeRate(st) ==
    IF st.pool_trading_volume > st.pool_volume_threshold
    THEN (st.stake_reward_rate * st.pool_boost_multiplier) \div 100
    ELSE st.stake_reward_rate

Vested(t) == clock >= stake[t].stake_start + VESTING_SECONDS

C7_StakeReward ==
    \A t \in Traders :
        LET o == TxClaimStakeRewards(World, t)
            expected == stake[t].amount * ExpectedStakeRate(state)
                            * (clock - stake[t].last_updated)
        IN  /\ o.result = "Ok" =>
                  /\ o.minted = expected
                  /\ o.world.token.wallet[t] = token.wallet[t] + expected
                  /\ o.world.stake[t] = [stake[t] EXCEPT !.last_updated = clock]
            /\ ( /\ HasStake(t)
                 /\ Vested(t)
                 /\ stake[t].amount = 0 \/ stake[t].last_updated = clock ) =>
                  /\ o.result = "Ok"
                  /\ o.minted = 0
                  /\ o.world.stake[t].last_updated = clock

(* t2, who never trades, staked everything at the start and has been paid  *)
(* the whole vesting period at the boosted rate 3 * 150 / 100 = 4, and t1  *)
(* is vested with a zero amount                                            *)
C7_Witness ==
    /\ token.wallet["t2"] = MaxStake * 4 * VESTING_SECONDS
    /\ stake["t2"].last_updated = StartTime + VESTING_SECONDS
    /\ state.pool_trading_volume > state.pool_volume_threshold
    /\ HasStake("t1") /\ Vested("t1") /\ stake["t1"].amount = 0

(* C8: claim_stake_rewards before stake_start + 604800 fails with          *)
(* VestingPeriodNotCompleted whatever the staked amount, 0 included, mints *)
(* nothing and leaves every account unchanged: now, and at every later     *)
(* instant up to the last second of the vesting.                           *)
VestingInstants(t) ==
    {clock} \cup {now \in {stake[t].stake_start + 604800 - d : d \in {1, 2}} :
                    now > clock}

C8_VestingPeriodNotCompleted ==
    \A t \in Traders :
        HasStake(t) =>
            \A now \in VestingInstants(t) :
                now < stake[t].stake_start + 604800 =>
                    LET w == [World EXCEPT !.clock = now]
                        o == TxClaimStakeRewards(w, t)
                    IN  /\ o.result = "VestingPeriodNotCompleted"
                        /\ o.minted = 0
                        /\ o.world = w

(* Both records are in their vesting, after a stake at a later instant     *)
(* than the first: t1's holds 0 and t2's holds tokens                      *)
C8_Witness ==
    /\ HasStake("t1") /\ stake["t1"].amount = 0
    /\ clock < stake["t1"].stake_start + VESTING_SECONDS
    /\ stake["t1"].stake_start < stake["t1"].last_updated
    /\ HasStake("t2") /\ stake["t2"].amount > 0
    /\ clock < stake["t2"].stake_start + VESTING_SECONDS

(* C9: a stake_start, once set by the trader's first stake, stays what    *)
(* that stake set it to whatever instructions follow, and from the moment  *)
(* the clock reaches it + 604800 no claim_stake_rewards of that trader     *)
(* fails with VestingPeriodNotCompleted.                                   *)
VestingGatePassed(t) ==
    TxClaimStakeRewards(World, t).result # "VestingPeriodNotCompleted"

C9_StakeStartFixed ==
    \A t \in Traders :
        /\ stake[t].stake_start # 0 => history[t].first_stake # <<>>
        /\ history[t].first_stake # <<>> =>
              /\ HasStake(t)
              /\ stake[t].stake_start = history[t].first_stake[1]
              /\ clock >= history[t].first_stake[1] + 604800 =>
                    VestingGatePassed(t)

(* t2 stakes and withdraws everything at once: it staked at the start,     *)
(* withdrew to 0, staked again after the vesting and was never paid        *)
C9_Witness ==
    /\ stake["t2"].stake_start = StartTime
    /\ stake["t2"].last_updated >= StartTime + VESTING_SECONDS
    /\ stake["t2"].amount = MaxStake
    /\ token.wallet["t2"] = 0
    /\ VestingGatePassed("t2")

LaterInstants == {now \in StakeTimes \cup {clock, clock + 1} : now >= clock}

C11_WithdrawKeepsClocks ==
    \A t \in Traders, a \in WithdrawAmounts :
        LET o == TxWithdrawStake(World, t, a)
        IN  o.result = "Ok" =>
              /\ o.world.stake = [stake EXCEPT ![t].amount = @ - a]
              /\ o.world.state = state
              /\ o.world.trader_stats = trader_stats
              /\ \A now \in LaterInstants :
                    LET before == TxClaimStakeRewards(
                                      [World EXCEPT !.clock = now], t)
                        after == TxClaimStakeRewards(
                                      [o.world EXCEPT !.clock = now], t)
                    IN  /\ before.result = "VestingPeriodNotCompleted"
                              <=> after.result = "VestingPeriodNotCompleted"
                        /\ before.result = "Ok" => after.result = "Ok"
                        /\ after.result = "Ok" =>
                              after.minted =
                                  (stake[t].amount - a) * ExpectedStakeRate(state)
                                      * (now - stake[t].last_updated)

(* t1 staked everything, was paid the vesting period at the rate 3 on the  *)
(* whole stake, then withdrew one token, and two seconds have passed since *)
(* the claim: the balance left has two seconds of rewards unclaimed        *)
C11_Witness ==
    /\ stake["t1"].amount = MaxStake - 1
    /\ token.wallet["t1"] = 1 + MaxStake * 3 * VESTING_SECONDS
    /\ stake["t1"].last_updated = StartTime + VESTING_SECONDS
    /\ clock = StartTime + VESTING_SECONDS + 2
    /\ TxClaimStakeRewards(World, "t1").minted > 0

(* C12: a successful stake_lat(a) followed at once by withdraw_stake(a) of  *)
(* the same trader: the withdrawal succeeds, Stake.amount is again what it *)
(* was before the stake (0 for a trader who had no record), the withdrawal *)
(* leaves the stake_start the stake left, and the tokens are back.         *)
C12_StakeWithdrawRoundTrip ==
    \A t \in Traders : \A a \in StakeAmounts \cup {token.wallet[t]} :
        LET staked == TxStakeLat(World, t, a)
            back == TxWithdrawStake(staked.world, t, a)
        IN  staked.result = "Ok" =>
              /\ back.result = "Ok"
              /\ back.world.stake[t].amount = stake[t].amount
              /\ ~HasStake(t) => back.world.stake[t].amount = 0
              /\ back.world.stake[t].stake_start
                    = staked.world.stake[t].stake_start
              /\ staked.world.stake[t].stake_start
                    = IF stake[t].stake_start = 0 THEN clock
                      ELSE stake[t].stake_start
              /\ back.world.token = token

(* t2 has staked everything and withdrawn it in the first slot, and t1     *)
(* holds a stake and tokens for a round trip on a record that is not empty *)
C12_Witness ==
    /\ HasStake("t2")
    /\ stake["t2"] = [amount |-> 0, last_updated |-> StartTime,
                      stake_start |-> StartTime]
    /\ token.wallet["t2"] = InitialBalance
    /\ clock = StartTime
    /\ stake["t1"].amount > 0
    /\ token.wallet["t1"] > 0

(* C13: a record_trade in which a checked operation leaves the u64 range   *)
(* (an addition to a counter of ProgramState or of the trader, trade_volume*)
(* * trade_reward_rate, that product times the multiplier, or the addition *)
(* to the pending rewards) fails with CalculationError and leaves every    *)
(* account as it was before the call; a record_trade in which none does    *)
(* succeeds.  Tried in every reachable state and in the states that follow *)
(* it after many more trades of the trader, where the counters are large.  *)
BigVolume == U64_MAX \div 200

OverflowVolumes == ProbeVolumes \cup {BigVolume, U64_MAX \div 2}

(* The accounts after `extra` more record_trade(0) of t: total_trades is   *)
(* at its maximum                                                          *)
AfterZeroTrades(t) ==
    LET extra == U64_MAX - state.total_trades
    IN  [World EXCEPT !.state.total_trades = @ + extra,
                      !.trader_stats[t].trade_count = @ + extra,
                      !.trader_stats[t].last_claim =
                            FirstTradeLastClaim(@, clock),
                      !.initialized = @ \cup {<<"stats", t>>}]

(* The accounts after k more record_trade(BigVolume) of t at the base      *)
(* multiplier                                                              *)
AfterBigTrades(t, k) ==
    [World EXCEPT !.state.total_trades = @ + k,
                  !.state.epoch_trade_volume = @ + k * BigVolume,
                  !.state.pool_trading_volume = @ + k * BigVolume,
                  !.trader_stats[t].trade_count = @ + k,
                  !.trader_stats[t].total_volume = @ + k * BigVolume,
                  !.trader_stats[t].pending_trade_rewards =
                        @ + k * BigVolume * state.trade_reward_rate,
                  !.trader_stats[t].last_claim = FirstTradeLastClaim(@, clock),
                  !.initialized = @ \cup {<<"stats", t>>}]

(* The number of further big trades after which the pending rewards of t   *)
(* have no room for the reward of one more                                 *)
BigTradesToFill(t) ==
    (U64_MAX - trader_stats[t].pending_trade_rewards)
        \div (BigVolume * state.trade_reward_rate)

AtBaseMultiplier == state.epoch_trade_volume >= state.pool_volume_threshold

OverflowWorlds(t) ==
    {World, AfterZeroTrades(t)}
        \cup (IF AtBaseMultiplier THEN {AfterBigTrades(t, BigTradesToFill(t))}
              ELSE {})

AddOverflows(w, t, v) ==
    \/ w.state.total_trades + 1 > U64_MAX
    \/ w.state.epoch_trade_volume + v > U64_MAX
    \/ w.state.pool_trading_volume + v > U64_MAX
    \/ w.trader_stats[t].trade_count + 1 > U64_MAX
    \/ w.trader_stats[t].total_volume + v > U64_MAX

ProductOverflows(w, v) == v * w.state.trade_reward_rate > U64_MAX

ScaledProductOverflows(w, v) ==
    /\ ~ProductOverflows(w, v)
    /\ v * w.state.trade_reward_rate
          > U64_MAX \div (IF w.state.epoch_trade_volume + v
                                < w.state.pool_volume_threshold
                          THEN 150 ELSE 100)

PendingOverflows(w, t, v) ==
    /\ ~AddOverflows(w, t, v)
    /\ ~ProductOverflows(w, v)
    /\ ~ScaledProductOverflows(w, v)
    /\ w.trader_stats[t].pending_trade_rewards + ExpectedTradeReward(w.state, v)
          > U64_MAX

Overflows(w, t, v) ==
    \/ AddOverflows(w, t, v)
    \/ ProductOverflows(w, v)
    \/ ScaledProductOverflows(w, v)
    \/ PendingOverflows(w, t, v)

C13_OverflowMutatesNothing ==
    \A t \in Traders :
        /\ \A w \in OverflowWorlds(t), v \in OverflowVolumes :
              LET o == TxRecordTrade(w, t, v)
              IN  IF Overflows(w, t, v)
                  THEN /\ o.result = "CalculationError"
                       /\ o.minted = 0
                       /\ o.world = w
                  ELSE o.result = "Ok"
        /\ AtBaseMultiplier =>
              /\ TxRecordTrade(World, t, BigVolume).result = "Ok"
              /\ TxRecordTrade(World, t, BigVolume).world = AfterBigTrades(t, 1)
              /\ PendingOverflows(AfterBigTrades(t, BigTradesToFill(t)),
                                  t, BigVolume)
        /\ state.total_trades < U64_MAX =>
              /\ TxRecordTrade(World, t, 0).result = "Ok"
              /\ AfterZeroTrades(t).state.total_trades = U64_MAX

(* The threshold has been passed by two trades of t1; a first trade of t2  *)
(* of the largest volume overflows the epoch volume after total_trades has *)
(* been incremented, and one of half that volume overflows the product     *)
C13_Witness ==
    /\ state.total_trades = 2
    /\ trader_stats["t1"].trade_count = 2
    /\ AtBaseMultiplier
    /\ ~HasStats("t2")
    /\ AddOverflows(World, "t2", U64_MAX)
    /\ ScaledProductOverflows(World, U64_MAX \div 2)
    /\ TxRecordTrade(World, "t2", U64_MAX).result = "CalculationError"

(* C14: in every step, total_trades, epoch_trade_volume,                   *)
(* pool_trading_volume and every trader's trade_count and total_volume do  *)
(* not decrease; a trader's pending rewards decrease only in a successful  *)
(* claim_trade_rewards of that trader; a trader's Stake.amount decreases   *)
(* only in a successful withdraw_stake of that trader; and all of them are *)
(* never negative.                                                         *)
CountersNonNegative ==
    /\ state.total_trades >= 0
    /\ state.epoch_trade_volume >= 0
    /\ state.pool_trading_volume >= 0
    /\ \A t \in Traders :
          /\ trader_stats[t].trade_count >= 0
          /\ trader_stats[t].total_volume >= 0
          /\ trader_stats[t].pending_trade_rewards >= 0
          /\ stake[t].amount >= 0

StepOfClaimTradeRewards(t) ==
    LET o == TxClaimTradeRewards(World, t)
    IN  /\ o.result = "Ok"
        /\ trader_stats' = o.world.trader_stats
        /\ token' = o.world.token

StepOfWithdrawStake(t) ==
    \E a \in 1 .. stake[t].amount :
        LET o == TxWithdrawStake(World, t, a)
        IN  /\ o.result = "Ok"
            /\ stake' = o.world.stake
            /\ token' = o.world.token

CountersMonotone ==
    /\ state'.total_trades >= state.total_trades
    /\ state'.epoch_trade_volume >= state.epoch_trade_volume
    /\ state'.pool_trading_volume >= state.pool_trading_volume
    /\ \A t \in Traders :
          /\ trader_stats'[t].trade_count >= trader_stats[t].trade_count
          /\ trader_stats'[t].total_volume >= trader_stats[t].total_volume
          /\ trader_stats'[t].pending_trade_rewards
                < trader_stats[t].pending_trade_rewards
                  => StepOfClaimTradeRewards(t)
          /\ stake'[t].amount < stake[t].amount => StepOfWithdrawStake(t)

C14_CountersMonotone ==
    [][CountersNonNegative /\ CountersNonNegative' /\ CountersMonotone]_vars

(* t1 has traded three times and been paid a claim in between, and has     *)
(* withdrawn one of its two staked tokens                                  *)
C14_Witness ==
    /\ state.total_trades = 3
    /\ history["t1"].claimed > 0
    /\ trader_stats["t1"].pending_trade_rewards > 0
    /\ stake["t1"].amount = 1
    /\ token.wallet["t1"] = InitialBalance - 1 + history["t1"].claimed
    /\ token.vault = 1

(* C15: two record_trade calls of different traders that succeed in both   *)
(* orders leave the same total_trades, epoch_trade_volume and              *)
(* pool_trading_volume, and the same trade_count and total_volume of each  *)
(* trader, in either order; the pending rewards can differ: when the first *)
(* of two trades of 400 stays below the threshold and the second reaches   *)
(* it, the trader who trades first accrues 150% and the other 100%.        *)
OrderVolumes == {0, 400, BigVolume}

Counters(w, t) ==
    <<w.trader_stats[t].trade_count, w.trader_stats[t].total_volume>>

C15_TradeOrder ==
    \A t \in Traders, u \in Traders :
        t # u =>
          /\ \A v \in OrderVolumes : \A x \in {y \in OrderVolumes : v <= y} :
                LET t1 == TxRecordTrade(World, t, v)
                    t2 == TxRecordTrade(t1.world, u, x)
                    u1 == TxRecordTrade(World, u, x)
                    u2 == TxRecordTrade(u1.world, t, v)
                IN  ( /\ t1.result = "Ok" /\ t2.result = "Ok"
                      /\ u1.result = "Ok" /\ u2.result = "Ok" ) =>
                        /\ t2.world.state = u2.world.state
                        /\ Counters(t2.world, t) = Counters(u2.world, t)
                        /\ Counters(t2.world, u) = Counters(u2.world, u)
                        /\ t2.world.state.total_trades = state.total_trades + 2
                        /\ t2.world.state.epoch_trade_volume
                              = state.epoch_trade_volume + v + x
          /\ ( /\ state.epoch_trade_volume + 400 < state.pool_volume_threshold
               /\ state.epoch_trade_volume + 800 >= state.pool_volume_threshold ) =>
                LET t2 == TxRecordTrade(TxRecordTrade(World, t, 400).world, u, 400)
                    u2 == TxRecordTrade(TxRecordTrade(World, u, 400).world, t, 400)
                IN  /\ t2.result = "Ok" /\ u2.result = "Ok"
                    /\ Pending(t2.world, t) - Pending(World, t)
                          = (400 * state.trade_reward_rate * 150) \div 100
                    /\ Pending(u2.world, t) - Pending(World, t)
                          = 400 * state.trade_reward_rate
                    /\ Pending(t2.world, t) # Pending(u2.world, t)

(* Under the threshold 800, t1 traded 400 and then t2 traded 400: t1 holds *)
(* 1200 and t2 holds 800                                                   *)
C15_Witness ==
    /\ state.pool_volume_threshold = 800
    /\ state.total_trades = 2
    /\ state.epoch_trade_volume = 800
    /\ trader_stats["t1"].trade_count = 1
    /\ trader_stats["t2"].trade_count = 1
    /\ trader_stats["t1"].pending_trade_rewards = 1200
    /\ trader_stats["t2"].pending_trade_rewards = 800

(* C16: no step lowers epoch_trade_volume or changes                       *)
(* pool_volume_threshold, so a state with epoch_trade_volume >=            *)
(* pool_volume_threshold is only followed by such states, and in every     *)
(* such state a record_trade of any trader and volume accrues at 100%:     *)
(* trade_volume * trade_reward_rate, never the 150% amount.                *)
ThresholdReached == state.epoch_trade_volume >= state.pool_volume_threshold

BaseMultiplierOnly ==
    \A t \in Traders, v \in ProbeVolumes :
        LET o == TxRecordTrade(World, t, v)
        IN  o.result = "Ok" =>
              /\ Accrued(World, t, v) = v * state.trade_reward_rate
              /\ v > 0 => Accrued(World, t, v)
                              < (v * state.trade_reward_rate * 150) \div 100

C16_HighRewardWindowNeverRecurs ==
    /\ [][ /\ state'.epoch_trade_volume >= state.epoch_trade_volume
           /\ state'.pool_volume_threshold = state.pool_volume_threshold
           /\ ThresholdReached => ThresholdReached' ]_vars
    /\ [](ThresholdReached => BaseMultiplierOnly)

(* Under the threshold 800, two trades of t1 reached it, rewards were      *)
(* claimed, and the trade of t2 that followed accrued 400 * 2              *)
C16_Witness ==
    /\ state.pool_volume_threshold = 800
    /\ state.epoch_trade_volume = 1200
    /\ trader_stats["t1"].trade_count = 2
    /\ history["t1"].claimed = 2000
    /\ trader_stats["t2"].trade_count = 1
    /\ history["t2"].accrued = 800
    /\ ThresholdReached

(* C17: claims of a trader at instants n1 <= n2 <= n3, the first of them   *)
(* after the vesting, with no other instruction in between: when one claim *)
(* at n3 would succeed, the three succeed, mint together exactly what the  *)
(* one claim would have minted, each its own interval, and leave the same  *)
(* accounts.                                                               *)
LastClaimInstant == clock + 3

ClaimInstants == {clock, clock + 1, LastClaimInstant}

ClaimAt(w, t, now) == TxClaimStakeRewards([w EXCEPT !.clock = now], t)

C17_ClaimsAddUp ==
    \A t \in Traders :
        LET single == ClaimAt(World, t, LastClaimInstant)
            unit == stake[t].amount * ExpectedStakeRate(state)
        IN  (HasStake(t) /\ single.result = "Ok") =>
              \A n1 \in ClaimInstants :
                LET first == ClaimAt(World, t, n1)
                IN  first.result = "Ok" =>
                      /\ first.minted = unit * (n1 - stake[t].last_updated)
                      /\ \A n2 \in {n \in ClaimInstants : n1 <= n} :
                            LET second == ClaimAt(first.world, t, n2)
                                third == ClaimAt(second.world, t,
                                                 LastClaimInstant)
                            IN  /\ second.result = "Ok"
                                /\ third.result = "Ok"
                                /\ second.minted = unit * (n2 - n1)
                                /\ third.minted = unit * (LastClaimInstant - n2)
                                /\ first.minted + second.minted + third.minted
                                      = single.minted
                                /\ third.world = single.world

(* t1 staked everything at the start and was paid the vesting period; two  *)
(* seconds later the stake is unchanged and the next claim pays those two  *)
(* seconds                                                                 *)
C17_Witness ==
    /\ stake["t1"] = [amount |-> MaxStake,
                      last_updated |-> StartTime + VESTING_SECONDS,
                      stake_start |-> StartTime]
    /\ token.wallet["t1"] = MaxStake * 3 * VESTING_SECONDS
    /\ clock = StartTime + VESTING_SECONDS + 2
    /\ TxClaimStakeRewards(World, "t1").minted
          = MaxStake * ExpectedStakeRate(state) * 2

(* C18: every successful stake_lat, also one on a record that holds        *)
(* tokens, sets last_updated to the current time, and the rewards accrued  *)
(* and not yet claimed when it is called (amount * rate * (now -           *)
(* last_updated), on the amount held before the stake) are part of what    *)
(* the trader's next claim_stake_rewards mints, together with the rewards  *)
(* of the new balance since the stake.                                     *)
AccruedStakeRewards(t) ==
    stake[t].amount * ExpectedStakeRate(state) * (clock - stake[t].last_updated)

C18_StakeKeepsAccruedRewards ==
    \A t \in Traders, a \in StakeAmounts :
        LET staked == TxStakeLat(World, t, a)
        IN  staked.result = "Ok" =>
              /\ staked.world.stake[t].last_updated = clock
              /\ \A now \in ClaimInstants :
                    LET claim == ClaimAt(staked.world, t, now)
                    IN  claim.result = "Ok" =>
                          claim.minted =
                              AccruedStakeRewards(t)
                                + (stake[t].amount + a) * ExpectedStakeRate(state)
                                      * (now - clock)

(* C19: for every trader, the rewards accrued by the trader's successful   *)
(* record_trade calls equal the pending rewards plus the amounts minted by *)
(* the trader's successful claim_trade_rewards calls.                      *)
C19_TradeRewardConservation ==
    \A t \in Traders :
        history[t].accrued
            = trader_stats[t].pending_trade_rewards + history[t].claimed

(* t1 traded, was paid a claim, and has the rewards of later trades        *)
(* pending                                                                 *)
C19_Witness ==
    /\ history["t1"].claimed > 0
    /\ trader_stats["t1"].trade_count = 3
    /\ trader_stats["t1"].pending_trade_rewards > 0
    /\ history["t1"].accrued > history["t1"].claimed
    /\ Len(history["t1"].claims) = 1

(* C20: the vault starts empty and only stake_lat and withdraw_stake move  *)
(* tokens in and out of it.  In every reachable state the vault holds the  *)
(* sum of Stake.amount over the traders, each Stake.amount is what the     *)
(* trader's own instructions moved in less what they moved out, and a      *)
(* withdraw_stake that succeeds takes no more than the trader's own        *)
(* Stake.amount and leaves in the vault all that the others have staked.   *)
StakedAmounts(w) == [t \in Traders |-> w.stake[t].amount]

=============================================================================
